---------------------------- MODULE Spec2Model ----------------------------
(***************************************************************************)
(* Model of src/src/core/mixin.js: the touch binder (lines 1-179), the     *)
(* colour picker (lines 180-779) and the colour arithmetic the picker      *)
(* delegates to tinycolor2.                                                *)
(*                                                                         *)
(* Numbers.  JavaScript numbers are modelled as exact rationals            *)
(* [n |-> numerator, d |-> denominator > 0] in lowest terms, so that       *)
(* Math.round, the division by the container size and tinycolor's          *)
(* percent truncation are computed, not assumed.  Strings are sequences    *)
(* of one-character strings, so that the regular expressions of the code   *)
(* are evaluated character by character.                                   *)
(***************************************************************************)
EXTENDS Integers, Sequences, FiniteSets, TLC

(***************************************************************************)
(* Rational arithmetic (the JavaScript number operations the code uses).   *)
(***************************************************************************)
Abs(k) == IF k < 0 THEN -k ELSE k

RECURSIVE Gcd(_, _)
Gcd(a, b) == IF b = 0 THEN a ELSE Gcd(b, a % b)

Reduce(n, d, g) == [n |-> n \div g, d |-> d \div g]

\* n / d, d > 0, in lowest terms
Rat(n, d) == Reduce(n, d, Gcd(Abs(n), d))

RInt(k) == [n |-> k, d |-> 1]

RAdd(x, y) == Rat(x.n * y.d + y.n * x.d, x.d * y.d)

RSub(x, y) == Rat(x.n * y.d - y.n * x.d, x.d * y.d)

RMul(x, y) == Rat(x.n * y.n, x.d * y.d)

\* x / y for y > 0
RDiv(x, y) == Rat(x.n * y.d, x.d * y.n)

RLt(x, y) == x.n * y.d < y.n * x.d

RLe(x, y) == x.n * y.d <= y.n * x.d

RMax(x, y) == IF RLt(x, y) THEN y ELSE x

RMin(x, y) == IF RLt(y, x) THEN y ELSE x

\* Math.floor
RFloor(x) == x.n \div x.d

\* Math.round: the nearest integer, a tie going up
RRound(x) == (2 * x.n + x.d) \div (2 * x.d)

IsInt(x) == x.d = 1

(***************************************************************************)
(* COLOR_CODE, lines 186-190.                                              *)
(***************************************************************************)
HEX == "HEX"

RGBA == "RGBA"

HSV == "HSV"

COLOR_CODE == {HEX, RGBA, HSV}

(***************************************************************************)
(* Strings and the two regular expressions on hex input.                   *)
(***************************************************************************)
LowerHex == <<"0", "1", "2", "3", "4", "5", "6", "7",
              "8", "9", "a", "b", "c", "d", "e", "f">>

UpperHex == <<"0", "1", "2", "3", "4", "5", "6", "7",
              "8", "9", "A", "B", "C", "D", "E", "F">>

\* the character class [0-9A-Fa-f]
IsHexDigit(c) == \E i \in 1..16 : c = LowerHex[i] \/ c = UpperHex[i]

\* parseInt(c, 16) of one hex digit
HexDigitValue(c) == (CHOOSE i \in 1..16 : c = LowerHex[i] \/ c = UpperHex[i]) - 1

\* A JavaScript string is the record [str |-> <<characters>>], so that
\* tinycolor's `typeof color == "string"` can be evaluated on any value.
Str(chars) == [str |-> chars]

IsString(value) == "str" \in DOMAIN value

\* the characters after an optional leading '#'  (the #? of the regular
\* expressions)
StripPound(chars) ==
    IF Len(chars) > 0 /\ chars[1] = "#" THEN Tail(chars) ELSE chars

\* isHex, /^#?([0-9A-Fa-f]{3}|[0-9A-Fa-f]{6})$/
isHex(value) ==
    LET body == StripPound(value.str)
    IN  /\ Len(body) \in {3, 6}
        /\ \A i \in 1..Len(body) : IsHexDigit(body[i])

\* isTypingHex, /^#?[0-9A-Fa-f]{0,6}$/
isTypingHex(value) ==
    LET body == StripPound(value.str)
    IN  /\ Len(body) <= 6
        /\ \A i \in 1..Len(body) : IsHexDigit(body[i])

\* concatenatePoundKey: prefix '#' unless the string starts with one
concatenatePoundKey(value) ==
    IF Len(value.str) > 0 /\ value.str[1] = "#"
    THEN value
    ELSE Str(<<"#">> \o value.str)

(***************************************************************************)
(* tinycolor2, as convertColor uses it (lines 339-353).  A tinycolor       *)
(* object is [r, g, b, a]: the channels _r, _g, _b on 0..255 (unrounded)   *)
(* and the alpha _a on 0..1.                                               *)
(***************************************************************************)
R0 == RInt(0)

R1 == RInt(1)

R255 == RInt(255)

\* the constructor: a channel below 1 is rounded
RoundBelowOne(c) == IF RLt(c, R1) THEN RInt(RRound(c)) ELSE c

\* inputToRGB and the constructor: channels are limited to [0, 255]
TinyChannel(x) == RoundBelowOne(RMin(R255, RMax(x, R0)))

\* boundAlpha: an alpha outside [0, 1] becomes 1
boundAlpha(a) == IF RLt(a, R0) \/ RLt(R1, a) THEN R1 ELSE a

TinyObject(r, g, b, a) ==
    [r |-> TinyChannel(r), g |-> TinyChannel(g), b |-> TinyChannel(b),
     a |-> boundAlpha(a)]

\* the two-digit and the doubled one-digit hex channel
Hex2(c1, c2) == RInt(16 * HexDigitValue(c1) + HexDigitValue(c2))

Hex1(c) == RInt(17 * HexDigitValue(c))

\* tinycolor(string): the hex6, hex4 and hex3 matchers; any other string
\* of the model is not a colour, which tinycolor reads as opaque black
tinyFromDigits(body) ==
    IF \E i \in 1..Len(body) : ~IsHexDigit(body[i])
    THEN TinyObject(R0, R0, R0, R1)
    ELSE IF Len(body) = 6
    THEN TinyObject(Hex2(body[1], body[2]), Hex2(body[3], body[4]),
                    Hex2(body[5], body[6]), R1)
    ELSE IF Len(body) = 4
    THEN TinyObject(Hex1(body[1]), Hex1(body[2]), Hex1(body[3]),
                    Rat(17 * HexDigitValue(body[4]), 255))
    ELSE IF Len(body) = 3
    THEN TinyObject(Hex1(body[1]), Hex1(body[2]), Hex1(body[3]), R1)
    ELSE TinyObject(R0, R0, R0, R1)

tinyFromString(value) == tinyFromDigits(StripPound(value.str))

\* tinycolor({r, g, b, a}); boundAlpha makes 1 of a missing a
tinyFromRgb(value) ==
    TinyObject(RInt(value.r), RInt(value.g), RInt(value.b),
               IF "a" \in DOMAIN value THEN value.a ELSE R1)

\* bound01(n + "%", 100): limited to [0, 100], cut (parseInt) to 1/100 of
\* a percent, and brought to 0..1
CutPercent(c) ==
    IF c = RInt(100) THEN R1 ELSE Rat(RFloor(RMul(c, RInt(100))), 10000)

PercentToUnit(p) == CutPercent(RMin(RInt(100), RMax(R0, p)))

\* bound01(h, 360): limited to [0, 360] and brought to 0..1, 360 giving 1
HueUnit(c) == IF c = RInt(360) THEN R1 ELSE RDiv(c, RInt(360))

HueToUnit(h) == HueUnit(RMin(RInt(360), RMax(R0, h)))

\* hsvToRgb: the channel triple [v, q, p, p, t, v][mod] and its likes
HsvPick(mod, v, p, q, t) ==
    TinyObject(RMul(<<v, q, p, p, t, v>>[mod + 1], R255),
               RMul(<<t, v, v, q, p, p>>[mod + 1], R255),
               RMul(<<p, p, t, v, v, q>>[mod + 1], R255), R1)

\* hsvToRgb: p, q and t from the fraction f of the sector
HsvMix(mod, f, s, v) ==
    HsvPick(mod, v,
            RMul(v, RSub(R1, s)),
            RMul(v, RSub(R1, RMul(f, s))),
            RMul(v, RSub(R1, RMul(RSub(R1, f), s))))

\* hsvToRgb: i = Math.floor(h), f = h - i, mod = i % 6
HsvSector(i, h6, s, v) == HsvMix(i % 6, RSub(h6, RInt(i)), s, v)

hsvToRgb(h6, s, v) == HsvSector(RFloor(h6), h6, s, v)

\* tinycolor(`hsv(${h}, ${s}%, ${v}%)`)
tinyFromHsv(h, s, v) ==
    hsvToRgb(RMul(HueToUnit(h), RInt(6)), PercentToUnit(s), PercentToUnit(v))

\* bound01(s, 100) of a number: limited to [0, 100] and brought to 0..1
NumberToUnit(x) == RDiv(RMin(RInt(100), RMax(R0, x)), RInt(100))

\* convertToPercentage and bound01 on the s or v of an {h, s, v} object: a
\* number up to 1 is a fraction and becomes the percentage string
ObjectPercent(x) ==
    IF RLe(x, R1) THEN PercentToUnit(RMul(x, RInt(100))) ELSE NumberToUnit(x)

\* tinycolor({h, s, v}) and tinycolor({h, s, v, a})
tinyFromHsvObject(value) ==
    [hsvToRgb(RMul(HueToUnit(value.h), RInt(6)),
              ObjectPercent(value.s), ObjectPercent(value.v))
        EXCEPT !.a = IF "a" \in DOMAIN value THEN boundAlpha(value.a) ELSE R1]

\* tinycolor(input) for a string, an {r, g, b, a} or an {h, s, v} object
tinycolor(input) ==
    IF IsString(input) THEN tinyFromString(input)
    ELSE IF {"r", "g", "b"} \subseteq DOMAIN input THEN tinyFromRgb(input)
    ELSE tinyFromHsvObject(input)

\* toHsv: rgbToHsv, h in degrees, s and v on 0..1
\* rgbToHsv: the hue, on 0..6, of a colour with d = max - min > 0
HueSector(r, g, b, max, d) ==
    IF max = r
    THEN RAdd(RDiv(RSub(g, b), d), IF RLt(g, b) THEN RInt(6) ELSE R0)
    ELSE IF max = g
    THEN RAdd(RDiv(RSub(b, r), d), RInt(2))
    ELSE RAdd(RDiv(RSub(r, g), d), RInt(4))

rgbToHsv(r, g, b, a, max, min) ==
    [h |-> IF max = min
           THEN R0
           ELSE RMul(RDiv(HueSector(r, g, b, max, RSub(max, min)), RInt(6)),
                     RInt(360)),
     s |-> IF max = R0 THEN R0 ELSE RDiv(RSub(max, min), max),
     v |-> max,
     a |-> a]

HsvOfUnit(r, g, b, a) ==
    rgbToHsv(r, g, b, a, RMax(r, RMax(g, b)), RMin(r, RMin(g, b)))

toHsv(tc) ==
    HsvOfUnit(RDiv(tc.r, R255), RDiv(tc.g, R255), RDiv(tc.b, R255), tc.a)

\* toRgb: the channels rounded
toRgb(tc) ==
    [r |-> RRound(tc.r), g |-> RRound(tc.g), b |-> RRound(tc.b), a |-> tc.a]

\* pad2(Math.round(c).toString(16))
HexByte(k) == <<LowerHex[(k \div 16) + 1], LowerHex[(k % 16) + 1]>>

Pad2(c) == HexByte(RRound(c))

\* toHexString: '#' and the three rounded channels in lower-case hex
toHexString(tc) == Str(<<"#">> \o Pad2(tc.r) \o Pad2(tc.g) \o Pad2(tc.b))

(***************************************************************************)
(* The touch binder, lines 1-179.  Its state is one record:                *)
(*   events      closureEventListener's events (line 32), as the set of    *)
(*               entries [id, target, type]; the id t_<key> is the key     *)
(*   key         line 33                                                   *)
(*   issued      the ids `add` has returned, in order                      *)
(*   attached    the listeners the DOM holds (addEventListener minus       *)
(*               removeEventListener), named by the id they were added as  *)
(*   removeCalls the ids whose listener removeEventListener was called on  *)
(*   refs        the elements of tag.refs.touch                            *)
(*   attr        the 'touchevents' attribute of each element               *)
(*   hover       whether the element's classList contains 'hover'          *)
(*   touch       touchX, touchY of the element's binding (line 61)         *)
(*   mounted     whether the tag is mounted                                *)
(*   gesture     the positions of the start event and of the move events   *)
(*               an element's listeners have handled since that start      *)
(*   last        what the last operation was and did                       *)
(***************************************************************************)
Null == [null |-> TRUE]

\* line 29
TOUCH_ALLOW_RANGE == 10

\* the elements one tag may hold under ref="touch", in document order
Elements == <<"button", "plain">>

ElementSet == { Elements[i] : i \in 1..Len(Elements) }

\* elm.getAttribute('ontap'); null when the element has no such attribute
OnTap(elm) ==
    IF elm = "button"
    THEN Str(<<"p", "a", "r", "e", "n", "t", ".", "t", "a", "p">>)
    ELSE Null

\* EVENT_TOUCHSTART, EVENT_TOUCHMOVE, EVENT_TOUCHEND (lines 26-28)
EVENT_TOUCHSTART == "start"

EVENT_TOUCHMOVE == "move"

EVENT_TOUCHEND == "end"

\* closureEventListener.add, lines 35-46: the binder after the call; the id
\* returned is the key before it
closureAdd(b, target, type) ==
    [b EXCEPT !.attached =
                  @ \cup {[id |-> b.key, target |-> target, type |-> type]},
              !.events =
                  @ \cup {[id |-> b.key, target |-> target, type |-> type]},
              !.issued = Append(@, b.key),
              !.key = @ + 1]

\* closureEventListener.remove, lines 47-53
closureRemove(b, id) ==
    IF \A en \in b.events : en.id # id
    THEN b
    ELSE [b EXCEPT !.attached = @ \ { en \in b.events : en.id = id },
                   !.removeCalls = Append(@, id),
                   !.events = { en \in @ : en.id # id }]

\* getTouchableElements, lines 10-19
getTouchableElements(b) ==
    LET InRefs(elm) == elm \in b.refs
    IN  SelectSeq(Elements, InRefs)

\* lines 67-116 for one element: three listeners, then the attribute
\* `${start}/${move}/${end}`, which split('/') of line 125 takes apart again
AddThree(b, elm) ==
    closureAdd(closureAdd(closureAdd(b, elm, EVENT_TOUCHSTART),
                          elm, EVENT_TOUCHMOVE),
               elm, EVENT_TOUCHEND)

bindElementAlways(b, elm) ==
    [AddThree(b, elm) EXCEPT !.attr[elm] = <<b.key, b.key + 1, b.key + 2>>]

\* the body of the forEach of lines 60-117
bindElement(b, elm) ==
    IF b.attr[elm] # Null
    THEN b
    ELSE [AddThree(b, elm) EXCEPT !.attr[elm] = <<b.key, b.key + 1, b.key + 2>>]

RECURSIVE BindAll(_, _)
BindAll(b, elms) ==
    IF elms = <<>> THEN b ELSE BindAll(bindElement(b, Head(elms)), Tail(elms))

\* bindTouchEvents, lines 59-118
bindTouchEvents(b) == BindAll(b, getTouchableElements(b))

\* the forEach of lines 126-128
RECURSIVE RemoveAll(_, _)
RemoveAll(b, ids) ==
    IF ids = <<>> THEN b ELSE RemoveAll(closureRemove(b, Head(ids)), Tail(ids))

\* the forEach of lines 120-129
RECURSIVE UnbindAll(_, _)
UnbindAll(b, elms) ==
    IF elms = <<>> THEN b
    ELSE UnbindAll(IF b.attr[Head(elms)] = Null THEN b
                   ELSE RemoveAll(b, b.attr[Head(elms)]),
                   Tail(elms))

\* unbindTouchEvents, lines 119-130
unbindTouchEvents(b) == UnbindAll(b, getTouchableElements(b))

\* whether the DOM holds a listener of this type on the element
Listens(b, elm, type) ==
    \E en \in b.attached : en.target = elm /\ en.type = type

\* the start listener, lines 67-77
touchStartListener(b, elm, pos) ==
    [b EXCEPT !.touch[elm] = pos, !.hover[elm] = TRUE]

\* Math.pow(distanceX, 2) + Math.pow(distanceY, 2)
SquaredDistance(p, q) == (p.x - q.x) * (p.x - q.x) + (p.y - q.y) * (p.y - q.y)

\* the move listener, lines 79-97.  Line 94 is hypotenuse >=
\* TOUCH_ALLOW_RANGE: for integer coordinates the square root is at least
\* 10 exactly when the sum of squares is at least 100
touchMoveListener(b, elm, pos) ==
    IF ~b.hover[elm]
    THEN b
    ELSE IF SquaredDistance(pos, b.touch[elm])
                >= TOUCH_ALLOW_RANGE * TOUCH_ALLOW_RANGE
    THEN [b EXCEPT !.hover[elm] = FALSE]
    ELSE b

\* lines 106-108: handlerName without a leading 'parent.'
StripParent(name) ==
    IF Len(name.str) >= 7 /\ SubSeq(name.str, 1, 7) = <<"p", "a", "r", "e", "n", "t", ".">>
    THEN Str(SubSeq(name.str, 8, Len(name.str)))
    ELSE name

\* line 106 on a null handlerName throws a TypeError
EndThrows(b, elm) == b.hover[elm] /\ OnTap(elm) = Null

\* lines 102-112: whether tag[handlerName](e) is called, for a tag whose
\* one method is `tap`
EndTaps(b, elm) ==
    /\ b.hover[elm]
    /\ OnTap(elm) # Null
    /\ Len(StripParent(OnTap(elm)).str) > 0
    /\ StripParent(OnTap(elm)) \in { Str(<<"t", "a", "p">>) }

\* the end listener, lines 99-114: line 113 is not reached after a throw
touchEndListener(b, elm) ==
    IF EndThrows(b, elm) THEN b ELSE [b EXCEPT !.hover[elm] = FALSE]

\* before the tag is mounted
BinderInit ==
    [events |-> {}, key |-> 0, issued |-> <<>>, attached |-> {},
     removeCalls |-> <<>>, refs |-> {},
     attr |-> [elm \in ElementSet |-> Null],
     hover |-> [elm \in ElementSet |-> FALSE],
     touch |-> [elm \in ElementSet |-> [x |-> 0, y |-> 0]],
     mounted |-> FALSE,
     gesture |-> [elm \in ElementSet |-> <<>>],
     last |-> [type |-> "none"]]

(***************************************************************************)
(* The state of one colour picker (lines 241-261) and of its host.         *)
(***************************************************************************)
VARIABLES
    color,                \* this.color, the object the host supplied
    selectableColorCode,  \* truthiness of selectableColorCode[format]
    optsHsv,              \* this.opts.hsv, Undefined when the host gives none
    latestValidHue,       \* line 257
    lastValidColor,       \* line 259
    isCatcherActive,      \* this.isCatcherActive
    pc,                   \* "idle", or "loop" inside the do-while of line 481
    index,                \* the index of handleColorChangeButtonTap
    emitted,              \* the calls of opts.oncolorchange made by lastOp
    lastOp,               \* the handler that ran last
    pointer,              \* the event and rectangle lastOp handled, if any
    probe,                \* input and results of the converter round trip
    optsColorGiven,       \* whether this.opts.color is defined (it is then
                          \* the object this.color, lines 248 and 275)
    thrown,               \* whether lastOp ended by throwing a TypeError
    binder,               \* the touch binder of lines 1-179: its registry,
                          \* the elements of one tag and their listeners
    round                 \* the updates a host in a closed loop has made

vars == <<color, selectableColorCode, optsHsv, latestValidHue, lastValidColor,
          isCatcherActive, pc, index, emitted, lastOp, pointer, probe,
          optsColorGiven, thrown, binder, round>>

\* JavaScript's undefined (a missing option, a missing argument)
Undefined == [undefined |-> TRUE]

(***************************************************************************)
(* Bounds of the inputs.                                                   *)
(***************************************************************************)
\* the pointer is at (i * PointerStride, (PointerSteps - i) * PointerStride)
\* px for i in 0..PointerSteps
PointerSteps == 1

\* a host in a closed loop makes at most MaxRounds updates
MaxRounds == 2

\* the alpha slider takes the values SliderStride, ..., SliderSteps *
\* SliderStride, and the hue slider four times these
SliderSteps == 1

(***************************************************************************)
(* What the host may supply.                                               *)
(***************************************************************************)
HexGreen == Str(<<"#", "0", "0", "f", "f", "0", "0">>)

HexBlack == Str(<<"#", "0", "0", "0", "0", "0", "0">>)

\* a partially typed value
HexPartial == Str(<<"f", "f", "0", "0">>)

\* (a host that supplies no colour gives the empty HEX colour)
HostColors ==
    { [format |-> HEX, value |-> v] : v \in {HexGreen, HexPartial} }
    \cup
    { [format |-> RGBA,
       value |-> [r |-> 128, g |-> 128, b |-> 128, a |-> Rat(1, 2)]],
      [format |-> HSV,
       value |-> [h |-> RInt(120), s |-> RInt(100), v |-> RInt(100)]] }

\* lines 243-246
AllSelectable == [f \in COLOR_CODE |-> f \in {HEX, RGBA}]

\* opts.selectablecolorcode: an object is modelled by the truthiness of each
\* of its entries, which is all the code reads
\* (a host that supplies none gives {HEX: true, RGBA: true})
HostSelectables ==
    { [f \in COLOR_CODE |-> f = HEX /\ x] : x \in BOOLEAN }

HostHsvs == { [h |-> RInt(300), s |-> RInt(50), v |-> RInt(50)] }

\* the bounding rectangle of refs.canvasContainer
HostRects ==
    { [left |-> R0, top |-> R0, width |-> RInt(200), height |-> RInt(100)] }

PointerStride == 100

PointerEvents ==
    { [pageX |-> RInt(PointerStride * i),
       pageY |-> RInt(PointerStride * (PointerSteps - i))] :
        i \in 0..PointerSteps }

SliderStride == 50

AlphaValues == { SliderStride * k : k \in 1..SliderSteps }

\* U+3000, the full-width space, as one character
FullWidthSpace == "U+3000"

(***************************************************************************)
(* convertColor, lines 335-355.                                            *)
(***************************************************************************)
\* convertColor where the closure's lastValidColor is `lastValid`
\* lines 346-354
ExportColor(colorObj, exportColorcode) ==
    IF exportColorcode = HEX THEN toHexString(colorObj)
    ELSE IF exportColorcode = RGBA THEN toRgb(colorObj)
    ELSE IF exportColorcode = HSV THEN toHsv(colorObj)
    ELSE Undefined

\* lines 338-344
SourceColor(lastValid, colorCode, colorValue) ==
    IF colorCode = HEX
    THEN tinyFromString(IF isHex(colorValue) THEN colorValue ELSE lastValid)
    ELSE IF colorCode = HSV
    THEN tinyFromHsv(colorValue.h, colorValue.s, colorValue.v)
    ELSE tinycolor(colorValue)

convertColorWith(lastValid, colorCode, colorValue, exportColorcode) ==
    ExportColor(SourceColor(lastValid, colorCode, colorValue), exportColorcode)

convertColor(colorCode, colorValue, exportColorcode) ==
    convertColorWith(lastValidColor, colorCode, colorValue, exportColorcode)

\* isMonochrome, lines 324-327
isMonochrome(format, value) == convertColor(format, value, HSV).s = R0

\* this.getHsv, lines 426-440, for the colour c, the override hv and the
\* closure's lastValidColor
RoundPercent(x) ==
    RMul(RDiv(RInt(RRound(RMul(x, RInt(100)))), RInt(100)), RInt(100))

\* lines 432-436
RoundHsv(hsv) ==
    [h |-> RInt(RRound(hsv.h)), s |-> RoundPercent(hsv.s),
     v |-> RoundPercent(hsv.v), a |-> hsv.a]

getHsvOf(c, hv, lastValid) ==
    IF hv # Undefined
    THEN hv
    ELSE RoundHsv(convertColorWith(lastValid, c.format, c.value, HSV))

getHsv == getHsvOf(color, optsHsv, lastValidColor)

\* getSpectrumPosition, lines 446-468
\* lines 450-455 and 460-465 without the two tests
SpectrumLimitNone(x) == x

\* lines 450-455 and 460-465
SpectrumLimit(x) ==
    IF RLt(RInt(100), x) THEN RInt(100)
    ELSE IF RLt(x, R0) THEN R0
    ELSE x

getSpectrumPosition(param) ==
    IF param = "saturation" THEN SpectrumLimit(getHsv.s)
    ELSE IF param = "brightness" THEN SpectrumLimit(RSub(RInt(100), getHsv.v))
    ELSE Undefined

\* getColorObject, lines 391-421
\* lines 397-399 and 403-405
LimitAbove(x, size) == IF RLt(size, x) THEN size ELSE x

\* lines 400-402 and 406-408: what a negative offset becomes
LimitBelow(x, least) == IF RLt(x, R0) THEN least ELSE x

\* lines 394 and 397-402
OffsetX(touchX, containerRect) ==
    LimitBelow(LimitAbove(RInt(RRound(RSub(touchX, containerRect.left))),
                          containerRect.width), R0)

\* lines 395 and 403-408
OffsetY(touchY, containerRect) ==
    LimitBelow(LimitAbove(RInt(RRound(RSub(touchY, containerRect.top))),
                          containerRect.height), Rat(1, 10))

\* Math.round(offset / size * 100)
PercentOf(offset, size) == RRound(RMul(RDiv(offset, size), RInt(100)))

getColorObject(touchX, touchY, containerRect) ==
    [h |-> getHsv.h,
     s |-> RInt(PercentOf(OffsetX(touchX, containerRect), containerRect.width)),
     v |-> RInt(100 - PercentOf(OffsetY(touchY, containerRect),
                                containerRect.height))]

(***************************************************************************)
(* Construction, lines 241-261.  updateSpectrum (lines 360-384), which     *)
(* 'mount' and 'update' call, only draws on the canvas: no handler reads   *)
(* the canvas back, and it is not part of the state.                       *)
(***************************************************************************)
DefaultColor == [format |-> HEX, value |-> Str(<<>>)]

\* the value of selectableColorCode once a construction is over: lines
\* 253-255 make the format of the colour selectable
InitSelectable(selectable, format) == [selectable EXCEPT ![format] = TRUE]

Init ==
    \E c \in HostColors \cup {Undefined},
       sel \in HostSelectables \cup {Undefined},
       hv \in HostHsvs \cup {Undefined} :
        /\ color = IF c = Undefined THEN DefaultColor ELSE c
        /\ selectableColorCode =
               InitSelectable(IF sel = Undefined THEN AllSelectable ELSE sel,
                              color.format)
        /\ optsHsv = hv
        /\ latestValidHue = R0
        /\ lastValidColor = HexBlack
        /\ isCatcherActive = FALSE
        /\ pc = "idle"
        /\ index = 0
        /\ emitted = <<>>
        /\ lastOp = "init"
        /\ pointer = Undefined
        /\ probe = [stage |-> "none"]
        /\ optsColorGiven = (c # Undefined)
        /\ thrown = FALSE
        /\ binder = BinderInit
        /\ round = 0

\* one call opts.oncolorchange(color, hsv)
Call(c, hsv) == [color |-> c, hsv |-> hsv]

(***************************************************************************)
(* on('update'), lines 270-284.                                            *)
(***************************************************************************)
\* lines 279-282: whether the update records the colour as lastValidColor
\* lines 280-282 without the isHex test of line 280
UpdateRecordsAnyHexField(c) == c.format = HEX

UpdateRecordsColor(c) == c.format = HEX /\ isHex(c.value)

Update(c, sel, hv) ==
    LET newColor == IF c = Undefined THEN DefaultColor ELSE c
        newValid == IF UpdateRecordsColor(newColor)
                    THEN newColor.value
                    ELSE lastValidColor
    IN
    /\ pc = "idle"
    /\ color' = newColor
    /\ selectableColorCode' =
           (IF sel = Undefined THEN AllSelectable ELSE sel)
    /\ optsHsv' = hv
    /\ lastValidColor' = newValid
    /\ emitted' = <<>>
    /\ lastOp' = "update"
    /\ pointer' = Undefined
    /\ optsColorGiven' = (c # Undefined)
    /\ thrown' = FALSE
    /\ UNCHANGED <<latestValidHue, isCatcherActive, pc, index, probe, binder>>

(***************************************************************************)
(* handleColorChangeButtonTap, lines 473-489.  The do-while loop is one    *)
(* step per iteration.                                                     *)
(***************************************************************************)
order == <<HEX, RGBA>>

\* order.indexOf(format)
IndexOf(format) ==
    IF \E i \in 1..Len(order) : order[i] = format
    THEN (CHOOSE i \in 1..Len(order) : order[i] = format) - 1
    ELSE -1

\* line 482
NextIndex(i) == IF i # Len(order) - 1 THEN i + 1 ELSE 0

handleColorChangeButtonTap ==
    /\ pc = "idle"
    /\ thrown' = FALSE
    /\ lastOp' = "tap"
    /\ pointer' = Undefined
    /\ IF IndexOf(color.format) # -1
       THEN /\ pc' = "loop"
            /\ index' = IndexOf(color.format)
            /\ emitted' = <<>>
       ELSE /\ pc' = "idle"
            /\ index' = -1
            /\ emitted' = <<Call(DefaultColor, Undefined)>>
    /\ UNCHANGED <<color, selectableColorCode, optsHsv, latestValidHue,
                   lastValidColor, isCatcherActive, probe,
                   optsColorGiven, binder, round>>

\* one iteration of do { ... } while (!selectableColorCode[order[index]])
CycleStep ==
    /\ pc = "loop"
    /\ thrown' = FALSE
    /\ index' = NextIndex(index)
    /\ IF selectableColorCode[order[NextIndex(index) + 1]]
       THEN /\ pc' = "idle"
            /\ emitted' =
                   <<Call([format |-> order[NextIndex(index) + 1],
                           value |-> convertColor(color.format, color.value,
                                                  order[NextIndex(index) + 1])],
                          Undefined)>>
       ELSE /\ pc' = "loop"
            /\ emitted' = emitted
    /\ UNCHANGED <<color, selectableColorCode, optsHsv, latestValidHue,
                   lastValidColor, isCatcherActive, lastOp, pointer, probe,
                   optsColorGiven, binder, round>>

(***************************************************************************)
(* The pointer handlers, lines 577-629.                                    *)
(***************************************************************************)
\* lines 585-587: the hue kept after computing `hsv`, emitted as `c`
\* lines 585-587 without the isMonochrome test of line 585
RecordedHueUnguarded(c, hsv) == hsv.h

RecordedHue(c, hsv) ==
    IF ~isMonochrome(c.format, c.value) THEN hsv.h ELSE latestValidHue

\* lines 580-588, the part the three handlers share
\* lines 585-588
PointerEmitColor(c, hsv) ==
    /\ latestValidHue' = RecordedHue(c, hsv)
    /\ emitted' = <<Call(c, hsv)>>

\* lines 581-584 with the computed hsv itself as the colour
PointerEmitHsvAsColor(hsv) ==
    PointerEmitColor([format |-> HSV, value |-> hsv], hsv)

\* lines 581-584
PointerEmitHsv(hsv) ==
    PointerEmitColor([format |-> color.format,
                      value |-> convertColor(HSV, hsv, color.format)], hsv)

\* lines 580-588, the part the three handlers share
PointerEmit(e, rect) ==
    /\ PointerEmitHsv(getColorObject(e.pageX, e.pageY, rect))
    /\ pointer' = [e |-> e, rect |-> rect]

handleCanvasMouseDown(e, rect) ==
    /\ pc = "idle"
    /\ thrown' = FALSE
    /\ isCatcherActive' = TRUE
    /\ PointerEmit(e, rect)
    /\ lastOp' = "down"
    /\ UNCHANGED <<color, selectableColorCode, optsHsv, lastValidColor, pc,
                   index, probe,
                   optsColorGiven, binder, round>>

handleCatcherMouseMove(e, rect) ==
    /\ pc = "idle"
    /\ thrown' = FALSE
    /\ lastOp' = "move"
    /\ IF ~isCatcherActive
       THEN /\ emitted' = <<>>
            /\ pointer' = [e |-> e, rect |-> rect]
            /\ UNCHANGED latestValidHue
       ELSE PointerEmit(e, rect)
    /\ UNCHANGED <<color, selectableColorCode, optsHsv, lastValidColor,
                   isCatcherActive, pc, index, probe,
                   optsColorGiven, binder, round>>

handleCatcherMouseUp(e, rect) ==
    /\ pc = "idle"
    /\ thrown' = FALSE
    /\ isCatcherActive' = FALSE
    /\ PointerEmit(e, rect)
    /\ lastOp' = "up"
    /\ UNCHANGED <<color, selectableColorCode, optsHsv, lastValidColor, pc,
                   index, probe,
                   optsColorGiven, binder, round>>

(***************************************************************************)
(* The sliders, lines 635-661.                                             *)
(***************************************************************************)
\* lines 637-639
SliderHsv(hsv, hue) ==
    [h |-> RInt(hue),
     s |-> RInt(RRound(RMul(hsv.s, RInt(100)))),
     v |-> RInt(RRound(RMul(hsv.v, RInt(100)))),
     a |-> hsv.a]

\* lines 640-646
HueSliderEmit(hsv) ==
    emitted' = <<Call([format |-> color.format,
                       value |-> convertColor(HSV, hsv, color.format)], hsv)>>

handleHueSliderChange(hue) ==
    /\ pc = "idle"
    /\ thrown' = FALSE
    /\ HueSliderEmit(SliderHsv(convertColor(color.format, color.value, HSV),
                               hue))
    /\ lastOp' = "hue"
    /\ pointer' = Undefined
    /\ UNCHANGED <<color, selectableColorCode, optsHsv, latestValidHue,
                   lastValidColor, isCatcherActive, pc, index, probe,
                   optsColorGiven, binder, round>>

\* objectAssign(target, {field: v}) on an object
ObjectAssign(target, field, v) ==
    [f \in DOMAIN target \cup {field} |-> IF f = field THEN v ELSE target[f]]

\* `color` of line 654 is this.color itself: lines 656-659 write into the
\* current colour, and line 657 converts with the format already set to RGBA
\* (line 659 on a string, the value of an RGBA colour the host made of a
\* typed text, throws: the module is strict code)
handleAlphaSliderChange(alpha) ==
    /\ pc = "idle"
    /\ IF color.format = RGBA /\ IsString(color.value)
       THEN /\ thrown' = TRUE
            /\ color' = color
            /\ emitted' = <<>>
       ELSE /\ thrown' = FALSE
            /\ color' =
                   [format |-> RGBA,
                    value |-> ObjectAssign(IF color.format # RGBA
                                           THEN convertColor(RGBA, color.value, RGBA)
                                           ELSE color.value,
                                           "a", Rat(alpha, 100))]
            /\ emitted' = <<Call(color', optsHsv)>>
    /\ lastOp' = "alpha"
    /\ pointer' = Undefined
    /\ UNCHANGED <<selectableColorCode, optsHsv, latestValidHue,
                   lastValidColor, isCatcherActive, pc, index, probe,
                   optsColorGiven, binder, round>>

(***************************************************************************)
(* The text inputs, lines 212-234 and 666-740.                             *)
(***************************************************************************)
\* lines 224-226
PoundIfHex(value) == IF isHex(value) THEN concatenatePoundKey(value) ELSE value

\* the value of lines 213-226; line 213 is value.replace(/U+3000/g, ' ')
TypedHex(value) ==
    PoundIfHex(Str([i \in 1..Len(value.str) |->
                       IF value.str[i] = FullWidthSpace THEN " "
                       ELSE value.str[i]]))

\* normalizeHexValue, lines 212-234, when it returns (this.opts.color,
\* when given, is the object this.color)
normalizeHexValue(value) ==
    IF ~isTypingHex(TypedHex(value)) THEN color.value ELSE TypedHex(value)

\* handleInputHexInput, lines 666-676: line 230 reads
\* this.opts.color.value, a TypeError when the host gave no colour
handleInputHexInput(value) ==
    /\ pc = "idle"
    /\ IF ~isTypingHex(TypedHex(value)) /\ ~optsColorGiven
       THEN /\ thrown' = TRUE
            /\ emitted' = <<>>
       ELSE /\ thrown' = FALSE
            /\ emitted' = <<Call([format |-> color.format,
                                  value |-> normalizeHexValue(value)],
                                 Undefined)>>
    /\ lastOp' = "hex"
    /\ pointer' = [e |-> [value |-> value]]
    /\ UNCHANGED <<color, selectableColorCode, optsHsv, latestValidHue,
                   lastValidColor, isCatcherActive, pc, index, probe,
                   optsColorGiven, binder, round>>

\* value || 0, for a number [number |-> k] or undefined
OrZero(value) == IF "number" \in DOMAIN value THEN value.number ELSE 0

\* objectAssign(color.value, {...}) of lines 687, 703, 719 and 735, where
\* color.value is this.color.value: an object takes the field, a string
\* (whose wrapper object takes it) stays as it is
AssignToValue(value, field, v) ==
    IF IsString(value) THEN value ELSE ObjectAssign(value, field, v)

\* handleInputRgbaRedInput, handleInputRgbaGreenInput and
\* handleInputRgbaBlueInput, lines 681-724: the same handler on r, g and b
handleInputRgbaInput(channel, value) ==
    /\ pc = "idle"
    /\ thrown' = FALSE
    /\ color' = [format |-> color.format,
                 value |-> AssignToValue(color.value, channel, OrZero(value))]
    /\ emitted' = <<Call(color', Undefined)>>
    /\ lastOp' = "channel"
    /\ pointer' = [e |-> [channel |-> channel, value |-> value]]
    /\ UNCHANGED <<selectableColorCode, optsHsv, latestValidHue,
                   lastValidColor, isCatcherActive, pc, index, probe,
                   optsColorGiven, binder, round>>

\* handleInputAlphaInput, lines 729-740.  The a of line 736 is the decimal
\* string of value / 100; it is kept as the number it denotes, which is what
\* tinycolor (parseFloat) and BigNumber read from it
handleInputAlphaInput(value) ==
    /\ pc = "idle"
    /\ thrown' = FALSE
    /\ color' = [format |-> color.format,
                 value |-> AssignToValue(color.value, "a",
                               Rat(OrZero(value), 100))]
    /\ emitted' = <<Call(color', Undefined)>>
    /\ lastOp' = "alphainput"
    /\ pointer' = [e |-> [value |-> value]]
    /\ UNCHANGED <<selectableColorCode, optsHsv, latestValidHue,
                   lastValidColor, isCatcherActive, pc, index, probe,
                   optsColorGiven, binder, round>>

(***************************************************************************)
(* The picker: any handler, in any order, one at a time.                   *)
(***************************************************************************)
HostUpdate ==
    /\ \E c \in HostColors \cup {Undefined},
          sel \in HostSelectables \cup {Undefined},
          hv \in HostHsvs \cup {Undefined} : Update(c, sel, hv)
    /\ UNCHANGED round

PointerDown ==
    \E e \in PointerEvents, rect \in HostRects : handleCanvasMouseDown(e, rect)

PointerMove ==
    \E e \in PointerEvents, rect \in HostRects : handleCatcherMouseMove(e, rect)

PointerUp ==
    \E e \in PointerEvents, rect \in HostRects : handleCatcherMouseUp(e, rect)

HueSlider ==
    \E hue \in { 4 * SliderStride * k : k \in 1..SliderSteps } :
        handleHueSliderChange(hue)

AlphaSlider == \E alpha \in AlphaValues : handleAlphaSliderChange(alpha)

\* what the user types into the hex field: empty, partial and committed
\* values, texts that are no hex, and texts with full-width spaces
HexInput ==
    \E value \in
        { Str(<<>>),
          Str(<<"#">>),
          Str(<<"f", "f", "0", "0">>),
          Str(<<"#", "f", "f", "0", "0">>),
          Str(<<"0", "F", "a">>),
          Str(<<"#", "0", "0", "f", "f", "0", "0">>),
          Str(<<"1", "2", "3", "4", "5", "6">>),
          Str(<<"1", "2", "3", "4", "5", "6", "7">>),
          Str(<<"g">>),
          Str(<<"f", "f", "#">>),
          Str(<<"f", "f", FullWidthSpace, "0", "0">>),
          Str(<<FullWidthSpace, "0", "0", "f", "f", "0", "0">>),
          Str(<<FullWidthSpace>>) } :
        handleInputHexInput(value)

\* the user enters a number, or nothing (an emptied field)
ChannelInput ==
    \E channel \in {"r", "g", "b"}, value \in {[number |-> 128], Undefined} :
        handleInputRgbaInput(channel, value)

AlphaInput ==
    \E a \in AlphaValues : handleInputAlphaInput([number |-> a])

Next ==
    \/ HostUpdate
    \/ handleColorChangeButtonTap
    \/ CycleStep
    \/ PointerDown
    \/ PointerMove
    \/ PointerUp
    \/ HueSlider
    \/ AlphaSlider

Spec == Init /\ [][Next]_vars

\* line 482 in a handler that is in its loop: the step CycleStep takes on
\* pc and index (under Next a handler in its loop takes no other step)
LoopIteration == pc = "loop" /\ index' = NextIndex(index)

\* the JavaScript engine keeps running a loop it is in
FairSpec == Spec /\ WF_index(LoopIteration)

\* a picker whose host gave no override and no selectable formats, and one
\* whose host gave no option at all
PointerInit == Init /\ optsHsv = Undefined /\ selectableColorCode = AllSelectable

ConvertInit ==
    /\ Init
    /\ color = DefaultColor
    /\ selectableColorCode = AllSelectable
    /\ optsHsv = Undefined

(***************************************************************************)
(* The text inputs of the picker between the updates of its host.          *)
(***************************************************************************)
TextNext ==
    \/ HostUpdate
    \/ HexInput
    \/ ChannelInput
    \/ AlphaInput

TextSpec == Init /\ [][TextNext]_vars

(***************************************************************************)
(* The touch binder of one tag, lines 1-153: the tag is mounted and        *)
(* unmounted, gains elements and rebinds them, and the DOM delivers the    *)
(* events of a pointer to the listeners it holds.                          *)
(***************************************************************************)
\* the log of a gesture holds its start and at most MaxMoves moves
MaxMoves == 2

\* pageX, pageY of the events
Positions == { [x |-> 0, y |-> 0], [x |-> 6, y |-> 8], [x |-> 6, y |-> 0] }

\* the binder leaves the colour picker alone
PickerIdle ==
    UNCHANGED <<color, selectableColorCode, optsHsv, latestValidHue,
                   lastValidColor, isCatcherActive, pc, index, emitted, lastOp,
                   pointer, probe, optsColorGiven, thrown, round>>

\* on('mount'), lines 143-144
Mount ==
    /\ binder' = [bindTouchEvents(binder) EXCEPT
                      !.mounted = TRUE, !.last = [type |-> "bind"]]
    /\ PickerIdle

\* rebindTouchEvents, lines 151-153
Rebind ==
    /\ binder' = [bindTouchEvents(binder) EXCEPT !.last = [type |-> "bind"]]
    /\ PickerIdle

\* on('before-unmount'), lines 145-146
Unmount ==
    /\ binder' = [unbindTouchEvents(binder) EXCEPT
                      !.mounted = FALSE,
                      !.last = [type |-> "unbind",
                                before |-> [events |-> binder.events,
                                            attached |-> binder.attached,
                                            removeCalls |-> binder.removeCalls]]]
    /\ PickerIdle

\* the tag renders one more element with ref="touch"
ElementAdded ==
    \E elm \in ElementSet \ binder.refs :
        /\ binder' = [binder EXCEPT !.refs = @ \cup {elm},
                                    !.last = [type |-> "element"]]
        /\ PickerIdle

\* a touchstart / mousedown on an element that listens for it
TouchStart ==
    \E elm \in ElementSet, pos \in Positions :
        /\ Listens(binder, elm, EVENT_TOUCHSTART)
        /\ binder' = [touchStartListener(binder, elm, pos) EXCEPT
                          !.gesture[elm] = <<pos>>,
                          !.last = [type |-> "start", elm |-> elm]]
        /\ PickerIdle

\* a touchmove / mousemove
TouchMove ==
    \E elm \in ElementSet, pos \in Positions :
        /\ Listens(binder, elm, EVENT_TOUCHMOVE)
        /\ Len(binder.gesture[elm]) <= MaxMoves
        /\ binder' = [touchMoveListener(binder, elm, pos) EXCEPT
                          !.gesture[elm] =
                              IF @ = <<>> THEN @ ELSE Append(@, pos),
                          !.last = [type |-> "move", elm |-> elm]]
        /\ PickerIdle

\* a touchend / mouseup
TouchEnd ==
    \E elm \in ElementSet :
        /\ Listens(binder, elm, EVENT_TOUCHEND)
        /\ binder' = [touchEndListener(binder, elm) EXCEPT
                          !.gesture[elm] = <<>>,
                          !.last = [type |-> "end", elm |-> elm,
                                    gesture |-> binder.gesture[elm],
                                    tapped |-> EndTaps(binder, elm),
                                    thrown |-> EndThrows(binder, elm)]]
        /\ PickerIdle

BinderNext ==
    \/ Mount
    \/ Rebind
    \/ Unmount
    \/ ElementAdded
    \/ TouchStart
    \/ TouchMove
    \/ TouchEnd

\* (the colour picker stays as a host without options constructs it)
BinderSpec == ConvertInit /\ [][BinderNext]_vars

(***************************************************************************)
(* The closed loop: the host starts with a HEX or RGBA colour or with      *)
(* none, and the update that follows each event (riot updates a tag after  *)
(* every handler of a DOM event) supplies the colour the handler passed to *)
(* oncolorchange; a handler that emitted nothing leaves the host with the  *)
(* colour it had.                                                          *)
(***************************************************************************)
ClosedLoopInit == Init /\ color.format \in {HEX, RGBA}

HostResupply ==
    /\ lastOp \notin {"init", "update"}
    /\ pc = "idle"
    /\ round < MaxRounds
    /\ round' = round + 1
    /\ \E sel \in HostSelectables \cup {Undefined},
          hv \in HostHsvs \cup {Undefined} :
           Update(IF emitted # <<>> THEN emitted[Len(emitted)].color
                  ELSE IF optsColorGiven THEN color
                  ELSE Undefined,
                  sel, hv)

\* an update, one event of the user after the construction or an update,
\* or one more iteration of the cycler
ClosedLoopNext ==
    \/ HostResupply
    \/ /\ lastOp \in {"init", "update"}
       /\ \/ handleColorChangeButtonTap
          \/ PointerDown
          \/ PointerMove
          \/ PointerUp
          \/ HueSlider
          \/ AlphaSlider
          \/ HexInput
          \/ ChannelInput
          \/ AlphaInput
    \/ CycleStep

ClosedLoopSpec == ClosedLoopInit /\ [][ClosedLoopNext]_vars

(***************************************************************************)
(* getSpectrumPosition on its own: the position of the knob under any      *)
(* override opts.hsv, in and out of range.                                 *)
(***************************************************************************)
SpectrumUpdate ==
    /\ \E c \in HostColors \cup {Undefined},
          hv \in { [h |-> RInt(120), s |-> ps, v |-> pv] :
                      ps \in { RInt(-50), Rat(101, 2), RInt(150) },
                      pv \in { RInt(-50), Rat(101, 2), RInt(150) } }
                  \cup {Undefined} : Update(c, Undefined, hv)
    /\ UNCHANGED round

\* this.getSpectrumPosition(param), as the template calls it
ProbeSpectrum ==
    /\ pc = "idle"
    /\ \E param \in {"saturation", "brightness"} :
           probe' = [stage |-> "spectrum", param |-> param, hsv |-> getHsv,
                     position |-> getSpectrumPosition(param)]
    /\ UNCHANGED <<color, selectableColorCode, optsHsv, latestValidHue,
                   lastValidColor, isCatcherActive, pc, index, emitted, lastOp,
                   pointer, optsColorGiven, thrown, binder, round>>

SpectrumNext == SpectrumUpdate \/ ProbeSpectrum

SpectrumSpec == PointerInit /\ [][SpectrumNext]_vars

(***************************************************************************)
(* getColorObject on its own: the pointer handlers over rectangles of any  *)
(* size and offset and over pointers inside and outside them.              *)
(***************************************************************************)
ProbeRects ==
    { [left |-> R0, top |-> R0, width |-> RInt(200), height |-> RInt(100)],
      [left |-> R0, top |-> R0, width |-> RInt(200), height |-> RInt(10)],
      [left |-> Rat(1, 2), top |-> R0, width |-> Rat(1, 2), height |-> Rat(1, 20)] }

ProbeEvents ==
    { [pageX |-> RInt(x), pageY |-> RInt(y)] :
        x \in {-5, 0, 250}, y \in {-5, 0, 150} }

PointerNext ==
    \E e \in ProbeEvents, rect \in ProbeRects :
        \/ handleCanvasMouseDown(e, rect)
        \/ handleCatcherMouseMove(e, rect)
        \/ handleCatcherMouseUp(e, rect)

PointerSpec == PointerInit /\ [][PointerNext]_vars

(***************************************************************************)
(* convertColor on its own: a hex string to HSV and back (lines 335-355).  *)
(***************************************************************************)
SampleBytes == {0, 51, 128, 255}

\* six-digit hex strings: lower case with '#', and two written otherwise
HexSamples ==
    { Str(<<"#">> \o HexByte(r) \o HexByte(g) \o HexByte(b)) :
        r \in SampleBytes, g \in SampleBytes, b \in SampleBytes }
    \cup { Str(<<"F", "F", "0", "0", "0", "0">>),
           Str(<<"3", "3", "8", "0", "F", "f">>) }

ProbeStart ==
    /\ probe.stage = "none"
    /\ \E c \in HexSamples : probe' = [stage |-> "input", c |-> c]
    /\ UNCHANGED <<color, selectableColorCode, optsHsv, latestValidHue,
                   lastValidColor, isCatcherActive, pc, index, emitted, lastOp,
                   pointer, optsColorGiven, thrown, binder, round>>

\* convertColor(HEX, c, HSV)
ProbeToHsv ==
    /\ probe.stage = "input"
    /\ probe' = [stage |-> "hsv", c |-> probe.c,
                 hsv |-> convertColor(HEX, probe.c, HSV)]
    /\ UNCHANGED <<color, selectableColorCode, optsHsv, latestValidHue,
                   lastValidColor, isCatcherActive, pc, index, emitted, lastOp,
                   pointer, optsColorGiven, thrown, binder, round>>

\* convertColor(HSV, thatResult, HEX)
ProbeToHex ==
    /\ probe.stage = "hsv"
    /\ probe' = [stage |-> "hex", c |-> probe.c, hsv |-> probe.hsv,
                 out |-> convertColor(HSV, probe.hsv, HEX)]
    /\ UNCHANGED <<color, selectableColorCode, optsHsv, latestValidHue,
                   lastValidColor, isCatcherActive, pc, index, emitted, lastOp,
                   pointer, optsColorGiven, thrown, binder, round>>

ConvertNext == ProbeStart \/ ProbeToHsv \/ ProbeToHex

ConvertSpec == ConvertInit /\ [][ConvertNext]_vars

(***************************************************************************)
(* Properties.                                                             *)
(***************************************************************************)

\* C1: after initialisation and after every host update the format of the
\* current colour is selectable: selectableColorCode maps it to a truthy
\* value.
C1_CurrentFormatSelectable ==
    lastOp \in {"init", "update"} => selectableColorCode[color.format]

\* C2: a tap on the format button ends: whenever the handler has entered its
\* loop, it later returns having called oncolorchange once.
C2_CyclerTerminates ==
    (pc = "loop") ~> (pc = "idle" /\ lastOp = "tap" /\ Len(emitted) = 1)

\* C3: with the current format HEX or RGBA, a tap emits exactly one colour,
\* in the first selectable format met going forward cyclically through
\* [HEX, RGBA] from just after the current one, which is the current format
\* itself when the other one is not selectable.
C3_CyclerEmitsNextSelectable ==
    (pc = "loop") ~>
        (/\ pc = "idle"
         /\ lastOp = "tap"
         /\ Len(emitted) = 1
         /\ emitted[Len(emitted)].color.format =
                LET other == order[NextIndex(IndexOf(color.format)) + 1]
                IN  IF selectableColorCode[other] THEN other ELSE color.format)

\* C4: lastValidColor is always a committed hex string.  It starts as
\* '#000000'; a step changes it only if the step is a host update whose
\* colour has format HEX and a committed hex value, and then to that value.
C4_LastValidColorCommitted ==
    /\ [](isHex(lastValidColor) /\ (lastOp = "init" => lastValidColor = HexBlack))
    /\ [][lastValidColor' # lastValidColor =>
            /\ lastOp' = "update"
            /\ color'.format = HEX
            /\ isHex(color'.value)
            /\ lastValidColor' = color'.value]_vars

\* a host update carrying a partial hex string has left a recorded colour
\* other than the initial one as it was
C4_Witness ==
    /\ lastOp = "update"
    /\ color = [format |-> HEX, value |-> HexPartial]
    /\ lastValidColor = HexGreen

\* C5: when the current colour is achromatic and the host gives no HSV
\* override, the hue getHsv() reports is latestValidHue.
C5_AchromaticHueIsLatestValid ==
    (/\ pc = "idle"
     /\ optsHsv = Undefined
     /\ isMonochrome(color.format, color.value))
        => getHsv.h = latestValidHue

\* C6: latestValidHue changes only in a pointer handler that computed a
\* colour of saturation > 0, and then to the hue of that colour; a pointer
\* handler that computed saturation 0 leaves it as it was.
C6_LatestValidHueOnlyFromChromatic ==
    [][/\ latestValidHue' # latestValidHue =>
            /\ lastOp' \in {"down", "move", "up"}
            /\ Len(emitted') = 1
            /\ RLt(R0, emitted'[1].hsv.s)
            /\ latestValidHue' = emitted'[1].hsv.h
       /\ (/\ lastOp' \in {"down", "move", "up"}
           /\ Len(emitted') = 1
           /\ emitted'[1].hsv.s = R0)
            => latestValidHue' = latestValidHue]_vars

\* a pointer move computed saturation 0 at hue 300 while the recorded hue
\* was 120, and the recorded hue is still 120
C6_Witness ==
    /\ lastOp = "move"
    /\ Len(emitted) = 1
    /\ emitted[Len(emitted)].hsv.s = R0
    /\ emitted[Len(emitted)].hsv.h = RInt(300)
    /\ latestValidHue = RInt(120)

\* C7: after the hue slider has moved to a hue H and the colour it produced
\* has saturation > 0, latestValidHue is H.
C7_HueSliderRecordsHue ==
    (/\ lastOp = "hue"
     /\ Len(emitted) = 1
     /\ RLt(R0, emitted[Len(emitted)].hsv.s)
     /\ ~isMonochrome(emitted[Len(emitted)].color.format,
                      emitted[Len(emitted)].color.value))
        => latestValidHue = emitted[Len(emitted)].hsv.h

\* C8: for every rectangle of positive width and height and every pointer,
\* the colour a pointer handler computes has integer s and v within 0..100;
\* left of the rectangle it is the colour at the left edge, right of it the
\* colour at the right edge.
C8_PointerColorInRange ==
    (lastOp \in {"down", "move", "up"} /\ Len(emitted) = 1) =>
        /\ IsInt(emitted[1].hsv.s)
        /\ RLe(R0, emitted[1].hsv.s) /\ RLe(emitted[1].hsv.s, RInt(100))
        /\ IsInt(emitted[1].hsv.v)
        /\ RLe(R0, emitted[1].hsv.v) /\ RLe(emitted[1].hsv.v, RInt(100))
        /\ RLt(pointer.e.pageX, pointer.rect.left) =>
               emitted[1].hsv.s =
                   getColorObject(pointer.rect.left, pointer.e.pageY,
                                  pointer.rect).s
        /\ RLt(RAdd(pointer.rect.left, pointer.rect.width), pointer.e.pageX) =>
               emitted[1].hsv.s =
                   getColorObject(RAdd(pointer.rect.left, pointer.rect.width),
                                  pointer.e.pageY, pointer.rect).s

\* C9: a pointer whose vertical offset into the rectangle is below 0.1,
\* exactly 0 included, gives the brightness of offset 0.1:
\* 100 - round(0.1 / height * 100).
C9_TopOffsetCountsAsTenth ==
    (/\ lastOp \in {"down", "move", "up"}
     /\ Len(emitted) = 1
     /\ RLt(RSub(pointer.e.pageY, pointer.rect.top), Rat(1, 10)))
        => emitted[Len(emitted)].hsv.v =
               RInt(100 - RRound(RMul(RDiv(Rat(1, 10), pointer.rect.height),
                                      RInt(100))))

\* C10: a committed hex colour converted to HSV and that result converted
\* back to HEX is the colour it was, case and '#' aside.
C10_HexRoundTrip ==
    probe.stage = "hex" =>
        probe.out = toHexString(tinyFromString(probe.c))

\* C11: handleInputHexInput emits one colour whose value is '' for an empty
\* input, the input with a leading '#' for a committed hex value, the input
\* itself for up to six hex digits that are not committed, and the current
\* value of the host's colour for any other input; the emitted value is
\* always a valid typing state or that previous value.
C11_HexInputNormalized ==
    lastOp = "hex" =>
        /\ Len(emitted) = 1
        /\ emitted[1].color.value =
               IF pointer.e.value.str = <<>> THEN Str(<<>>)
               ELSE IF isHex(pointer.e.value)
                    THEN Str(<<"#">> \o StripPound(pointer.e.value.str))
               ELSE IF isTypingHex(pointer.e.value) THEN pointer.e.value
               ELSE color.value
        /\ \/ emitted[1].color.value = color.value
           \/ /\ IsString(emitted[1].color.value)
              /\ isTypingHex(emitted[1].color.value)

\* C12: full-width spaces (U+3000) are stripped from the typed text before
\* it is validated: a text with full-width spaces is normalized as the same
\* text without them (here for a picker whose host gave a colour).
C12_FullWidthSpacesStripped ==
    (lastOp = "hex" /\ optsColorGiven) =>
        LET NoSpace(c) == c # FullWidthSpace
        IN  emitted =
                <<Call([format |-> color.format,
                        value |-> normalizeHexValue(
                                      Str(SelectSeq(pointer.e.value.str, NoSpace)))],
                       Undefined)>>

\* C13: an operation that converts the current colour while its format is
\* HEX and its value is not a committed hex value converts lastValidColor
\* in its place: the RGBA colour that the cycler or the alpha slider then
\* emits has the r, g and b of lastValidColor.
C13_UncommittedHexUsesLastValid ==
    [][(/\ color.format = HEX
        /\ ~isHex(color.value)
        /\ lastOp' \in {"tap", "alpha"}
        /\ Len(emitted') = 1
        /\ emitted'[1].color.format = RGBA)
       => /\ emitted'[1].color.value.r = toRgb(tinyFromString(lastValidColor)).r
          /\ emitted'[1].color.value.g = toRgb(tinyFromString(lastValidColor)).g
          /\ emitted'[1].color.value.b = toRgb(tinyFromString(lastValidColor)).b]_vars

\* C14: the current colour changes only when the host updates the picker:
\* no handler of the user interface modifies this.color, the object the
\* host supplied.
C14_OnlyUpdateChangesColor ==
    [][lastOp' # "update" => color' = color]_vars

\* C15: a pointer-down emits exactly one colour and makes the drag active;
\* a pointer-move emits exactly one colour if a pointer-down has occurred
\* with no pointer-up since (the drag is active) and nothing otherwise; a
\* pointer-up emits exactly one colour, within the bounds of the rectangle
\* (s and v in 0..100) wherever the pointer is released, and makes the drag
\* inactive; no other handler starts or ends a drag.
C15_DragEmission ==
    [][/\ lastOp' = "down" => (Len(emitted') = 1 /\ isCatcherActive')
       /\ lastOp' = "move" =>
              /\ Len(emitted') = (IF isCatcherActive THEN 1 ELSE 0)
              /\ isCatcherActive' = isCatcherActive
       /\ lastOp' = "up" =>
              /\ Len(emitted') = 1
              /\ ~isCatcherActive'
              /\ RLe(R0, emitted'[1].hsv.s)
              /\ RLe(emitted'[1].hsv.s, RInt(100))
              /\ RLe(R0, emitted'[1].hsv.v)
              /\ RLe(emitted'[1].hsv.v, RInt(100))
       /\ lastOp' \notin {"down", "up"} =>
              isCatcherActive' = isCatcherActive]_vars

\* C16: in the closed loop, where the host starts with a HEX or RGBA colour
\* or with none and every update supplies the colour last passed to
\* oncolorchange, the format of the current colour is HEX or RGBA in every
\* state and so is the format of every colour passed to oncolorchange.
C16_ClosedLoopFormats ==
    /\ color.format \in {HEX, RGBA}
    /\ \A i \in 1..Len(emitted) : emitted[i].color.format \in {HEX, RGBA}

\* a pointer-down emits an RGBA colour from a current colour that the host
\* took from an earlier emission
C16_Witness ==
    /\ round >= 1
    /\ lastOp = "down"
    /\ color.format = RGBA
    /\ color \notin HostColors
    /\ Len(emitted) = 1
    /\ emitted[1].color.format = RGBA

\* C17: getSpectrumPosition returns a value within 0..100 for every HSV,
\* an out-of-range override of the host included: hsv.s limited to 0..100
\* for 'saturation' and 100 - hsv.v limited to 0..100 for 'brightness', so
\* that v = 150 gives 0 and v = -50 gives 100.
C17_SpectrumPositionClamped ==
    probe.stage = "spectrum" =>
        /\ RLe(R0, probe.position) /\ RLe(probe.position, RInt(100))
        /\ probe.param = "saturation" =>
               probe.position = RMax(R0, RMin(RInt(100), probe.hsv.s))
        /\ probe.param = "brightness" =>
               /\ probe.position =
                      RMax(R0, RMin(RInt(100), RSub(RInt(100), probe.hsv.v)))
               /\ probe.hsv.v = RInt(150) => probe.position = R0
               /\ probe.hsv.v = RInt(-50) => probe.position = RInt(100)

\* the brightness position of an override with v = 150
C17_Witness ==
    /\ probe.stage = "spectrum"
    /\ probe.param = "brightness"
    /\ probe.hsv.v = RInt(150)
    /\ probe.position = R0

\* C20: every colour passed to oncolorchange has a format that is
\* selectable when it is emitted; with {HEX: true, RGBA: false} and a HEX
\* current colour no handler, the alpha slider included, emits an RGBA
\* colour.
C20_EmittedFormatSelectable ==
    \A i \in 1..Len(emitted) : selectableColorCode[emitted[i].color.format]

\* C18: at an end event on a bound element the tap handler its 'ontap'
\* attribute names is invoked exactly when a start event occurred on the
\* element and no move event since that start was at a distance of 10 or
\* more from the start position (a move back within range restores
\* nothing); after every end event the element is not in the 'hover' state.
C18_TapUnlessDragged ==
    binder.last.type = "end" =>
        /\ OnTap(binder.last.elm) # Null =>
               (binder.last.tapped <=>
                    /\ binder.last.gesture # <<>>
                    /\ \A i \in 2..Len(binder.last.gesture) :
                           SquaredDistance(binder.last.gesture[i],
                                           binder.last.gesture[1]) < 100)
        /\ ~binder.hover[binder.last.elm]

\* C19: every id `add` returns differs from every id returned before; an
\* element never has more than its three listeners (start, move, end) in
\* the registry however often the tag is bound, and has exactly these
\* three while it is bound and none of them has been removed; the registry
\* holds what the DOM holds; an unbind leaves no listener of a touchable
\* element of the tag in the registry; no listener is removed twice, and an
\* unbind that finds only removed ids changes nothing.
C19_RegistryLifecycle ==
    /\ \A i, j \in 1..Len(binder.issued) :
           i # j => binder.issued[i] # binder.issued[j]
    /\ \A elm \in ElementSet :
           LET own == { en \in binder.events : en.target = elm }
           IN  /\ \/ own = {}
                  \/ /\ Cardinality(own) = 3
                     /\ { en.type : en \in own } =
                            {EVENT_TOUCHSTART, EVENT_TOUCHMOVE, EVENT_TOUCHEND}
               /\ (/\ binder.attr[elm] # Null
                   /\ \A k \in 1..Len(binder.removeCalls) :
                          \A n \in 1..3 :
                              binder.removeCalls[k] # binder.attr[elm][n])
                      => own # {}
    /\ binder.attached = binder.events
    /\ \A i, j \in 1..Len(binder.removeCalls) :
           i # j => binder.removeCalls[i] # binder.removeCalls[j]
    /\ binder.last.type = "unbind" =>
           /\ \A en \in binder.events : en.target \notin binder.refs
           /\ (\A en \in binder.last.before.events :
                   en.target \notin binder.refs)
                  => /\ binder.events = binder.last.before.events
                     /\ binder.attached = binder.last.before.attached
                     /\ binder.removeCalls = binder.last.before.removeCalls

\* a second unbind of a tag whose two elements were bound and unbound
C19_Witness ==
    /\ binder.last.type = "unbind"
    /\ Len(binder.issued) = 6
    /\ Len(binder.last.before.removeCalls) = 6
    /\ binder.removeCalls = binder.last.before.removeCalls
    /\ binder.events = {}

\* C21: a bind after an unbind restores the listeners: after every call of
\* bindTouchEvents (on mount or through rebindTouchEvents) each touchable
\* element of the tag has its three listeners, start, move and end, in the
\* registry.
C21_BindRestoresListeners ==
    binder.last.type = "bind" =>
        \A elm \in binder.refs :
            { en.type : en \in { e \in binder.events : e.target = elm } } =
                {EVENT_TOUCHSTART, EVENT_TOUCHMOVE, EVENT_TOUCHEND}


=============================================================================
